---- MODULE Spec2Model ----
(***************************************************************************)
(* Model of the terminal front-end of kioto (src/src/tui/ui.rs):           *)
(* StatefulArea (the edit buffer around tui_textarea::TextArea), Timer,    *)
(* PopupState and the parts of Tui::render that write state.               *)
(*                                                                         *)
(* Text is a sequence of one-character strings; the cursor is <<row, col>> *)
(* counted from 0 as in TextArea::cursor(), so line `row` is lines[row+1]. *)
(***************************************************************************)
EXTENDS Integers, Sequences, FiniteSets, TLC

VARIABLES
    lines,      \* TextArea::lines(): non-empty sequence of lines
    cursor,     \* TextArea::cursor(): <<row, col>>
    height,     \* StatefulArea::height (u16)
    width,      \* StatefulArea::width  (u16)
    term,       \* width of the frame the terminal hands to render
    panicked,   \* the process died of an arithmetic-overflow panic
    typed,      \* history: keys given to on_input_update since the buffer was last drained
    seenW,      \* history: the widths those keys were processed under
    steps,      \* history: number of on_input_update calls of the session
    lastOp,     \* history: the last operation, <<name, argument>>
    reflow,     \* history: what move_last_word_to_new_line did in the last on_input_update
    ret,        \* history: the value get_text() returned, when it was the last operation
    drained,    \* history: the lines get_text() read, when it was the last operation
    popup,      \* ChatApp::current_popup
    counter,    \* Timer::counter
    start,      \* Timer::start
    treshold,   \* Timer::treshold_time
    pc,         \* position of the session loop: "input", "tick", "render"
    quiet,      \* history: no event arrived since the current popup was entered
    sinceZero,  \* history: ticks of the running timer since its counter was last 0
    period,     \* history: ticks of the running timer between the last two times its counter was 0
    fresh,      \* history: <<"new", 0>>, <<"armed", k>> after new, unlock and k ticks, else <<"other", 0>>
    items,      \* StatefulList::items
    selected,   \* StatefulList::state.selected(): NoSel or an index
    highlighted,\* StatefulList::is_highlighted
    rooms,      \* DbRepo::rooms: the stored Room documents, in insertion order
    localData,  \* DbRepo::local_data: the stored LocalData documents
    dbRet,      \* history: the result of the last command of run_option
    shown       \* history: renders since the notification popup shown was entered

areaVars  == <<lines, cursor, height, width, term, panicked>>
histVars  == <<typed, seenW, steps, lastOp, reflow, ret, drained>>
popupVars == <<popup, counter, start, treshold, pc, quiet>>
timerHist == <<sinceZero, period, fresh>>
listVars  == <<items, selected, highlighted>>
dbVars    == <<rooms, localData, dbRet>>
vars      == <<areaVars, histVars, popupVars, timerHist, listVars, dbVars, shown>>

----------------------------------------------------------------------------
(* Bounds of the model *)

MaxSteps  == 4      \* on_input_update calls per session in the editing specifications
MaxHeightSteps == 22 \* on_input_update calls per session in SpecHeight
MaxTreshold == 4    \* largest timer threshold tried

(* Program constants *)

MAX_AREA_HEIGHT == 20
MARGIN == 6
TAB_LEN == 4
U16 == 65536
UsizeMax == 2147483647  \* usize::MAX, cut to the largest integer TLC holds

----------------------------------------------------------------------------
(* Characters and strings *)

Letters == {"a", "b"}
Puncts  == {"."}
Spaces  == {" "}
Chars   == Letters \cup Puncts \cup Spaces
NL      == "\n"

\* char::is_whitespace, and the complement of the regex class \S
IsSpace(c) == c \in Spaces \/ c = NL

\* tui_textarea::word::CharKind::new
CharKind(c) == IF IsSpace(c) THEN "Space" ELSE IF c \in Puncts THEN "Punct" ELSE "Other"

RECURSIVE Reverse(_)
Reverse(s) == IF s = <<>> THEN <<>> ELSE Append(Reverse(Tail(s)), Head(s))

RECURSIVE Concat(_)
Concat(ss) ==
    IF ss = <<>> THEN <<>>
    ELSE IF Len(ss) = 1 THEN ss[1]
    ELSE LET h == Len(ss) \div 2
         IN  Concat(SubSeq(ss, 1, h)) \o Concat(SubSeq(ss, h + 1, Len(ss)))

\* the prefix of s up to its first whitespace: the match of \S+ when it starts at 0
RECURSIVE LeadingWord(_)
LeadingWord(s) ==
    IF s = <<>> \/ IsSpace(Head(s)) THEN <<>> ELSE <<Head(s)>> \o LeadingWord(Tail(s))

HasNonSpace(s) == \E i \in 1..Len(s) : ~IsSpace(s[i])

----------------------------------------------------------------------------
(* tui_textarea::TextArea, as far as StatefulArea drives it.  A text area  *)
(* is a record [lines, row, col]; every operation is the library call of   *)
(* the same name made by ui.rs.                                            *)

TA(ls, r, c) == [lines |-> ls, row |-> r, col |-> c]

Line(ta) == ta.lines[ta.row + 1]

SetLine(ta, l, c) == TA([ta.lines EXCEPT ![ta.row + 1] = l], ta.row, c)

\* TextArea::insert_char for a character that is not a newline
InsertChar(ta, ch) ==
    LET l == Line(ta)
    IN  SetLine(ta, SubSeq(l, 1, ta.col) \o <<ch>> \o SubSeq(l, ta.col + 1, Len(l)), ta.col + 1)

\* TextArea::insert_str for a string without newlines
InsertStr(ta, s) ==
    LET l == Line(ta)
    IN  SetLine(ta, SubSeq(l, 1, ta.col) \o s \o SubSeq(l, ta.col + 1, Len(l)), ta.col + Len(s))

\* TextArea::insert_tab with the defaults (soft tabs of TAB_LEN columns)
InsertTab(ta) ==
    InsertStr(ta, [i \in 1..(TAB_LEN - (ta.col % TAB_LEN)) |-> " "])

\* TextArea::insert_newline: split the line at the cursor
InsertNewline(ta) ==
    LET l == Line(ta)
        n == Len(ta.lines)
    IN  TA(SubSeq(ta.lines, 1, ta.row)
             \o <<SubSeq(l, 1, ta.col), SubSeq(l, ta.col + 1, Len(l))>>
             \o SubSeq(ta.lines, ta.row + 2, n),
           ta.row + 1, 0)

\* TextArea::delete_newline: join the cursor line to the line before it
DeleteNewlineMod(ta) == ta.row > 0
DeleteNewline(ta) ==
    IF ta.row = 0 THEN ta
    ELSE LET prev == ta.lines[ta.row]
             n    == Len(ta.lines)
         IN  TA(SubSeq(ta.lines, 1, ta.row - 1)
                  \o <<prev \o Line(ta)>>
                  \o SubSeq(ta.lines, ta.row + 2, n),
                ta.row - 1, Len(prev))

\* TextArea::delete_piece(col, chars): remove chars characters from column col
DeletePiece(ta, c, k) ==
    LET l == Line(ta)
    IN  IF k = 0 THEN ta
        ELSE SetLine(ta, SubSeq(l, 1, c) \o SubSeq(l, c + k + 1, Len(l)), c)

\* TextArea::delete_char (Backspace)
DeleteCharMod(ta) == ta.col > 0 \/ ta.row > 0
DeleteChar(ta) ==
    IF ta.col = 0 THEN DeleteNewline(ta) ELSE DeletePiece(ta, ta.col - 1, 1)

\* CursorMove::Forward
Forward(ta) ==
    IF ta.col < Len(Line(ta)) THEN TA(ta.lines, ta.row, ta.col + 1)
    ELSE IF ta.row + 1 < Len(ta.lines) THEN TA(ta.lines, ta.row + 1, 0)
    ELSE ta

\* TextArea::delete_next_char (Delete): step forward, then delete_char
DeleteNextCharMod(ta) == Forward(ta) # ta
DeleteNextChar(ta) == IF Forward(ta) = ta THEN ta ELSE DeleteChar(Forward(ta))

\* tui_textarea::word::find_word_start_backward; -1 stands for None
RECURSIVE WordStartScan(_, _, _, _)
WordStartScan(l, c, i, cur) ==
    IF i >= c THEN (IF cur # "Space" THEN 0 ELSE -1)
    ELSE LET next == CharKind(l[c - i])
         IN  IF cur # "Space" /\ next # cur THEN c - i
             ELSE WordStartScan(l, c, i + 1, next)

FindWordStartBackward(l, c) ==
    IF c = 0 THEN -1 ELSE WordStartScan(l, c, 1, CharKind(l[c]))

\* TextArea::delete_word: delete back to the start of the word before the cursor
DeleteWord(ta) ==
    LET s == FindWordStartBackward(Line(ta), ta.col)
    IN  IF s >= 0 THEN DeletePiece(ta, s, ta.col - s)
        ELSE IF ta.col > 0 THEN DeletePiece(ta, 0, ta.col)
        ELSE DeleteNewline(ta)

\* TextArea::delete_line_by_head: delete from the line's head to the cursor
DeleteLineByHead(ta) ==
    IF ta.col = 0 THEN DeleteNewline(ta) ELSE DeletePiece(ta, 0, ta.col)

\* TextArea::move_cursor
FitCol(c, l) == IF c < Len(l) THEN c ELSE Len(l)
MoveEnd(ta)  == TA(ta.lines, ta.row, Len(Line(ta)))
MoveHead(ta) == TA(ta.lines, ta.row, 0)
MoveUp(ta)   == IF ta.row = 0 THEN ta
                ELSE TA(ta.lines, ta.row - 1, FitCol(ta.col, ta.lines[ta.row]))
MoveDown(ta) == IF ta.row + 1 >= Len(ta.lines) THEN ta
                ELSE TA(ta.lines, ta.row + 1, FitCol(ta.col, ta.lines[ta.row + 2]))
MoveBack(ta) == IF ta.col > 0 THEN TA(ta.lines, ta.row, ta.col - 1)
                ELSE IF ta.row > 0 THEN TA(ta.lines, ta.row - 1, Len(ta.lines[ta.row]))
                ELSE ta

Moves == {"Up", "Down", "Back", "Forward", "Head", "End"}
MoveCursorTo(ta, m) ==
    CASE m = "Up"      -> MoveUp(ta)
      [] m = "Down"    -> MoveDown(ta)
      [] m = "Back"    -> MoveBack(ta)
      [] m = "Forward" -> Forward(ta)
      [] m = "Head"    -> MoveHead(ta)
      [] m = "End"     -> MoveEnd(ta)

\* TextArea::input_without_shortcuts: the keys it handles, the edit, and its result
\* (whether the text was modified)
EditKeys == {"Enter", "Backspace", "Delete", "Tab"}
Keys     == Chars \cup EditKeys

InputWithoutShortcuts(ta, k) ==
    CASE k \in Chars     -> InsertChar(ta, k)
      [] k = "Tab"       -> InsertTab(ta)
      [] k = "Backspace" -> DeleteChar(ta)
      [] k = "Delete"    -> DeleteNextChar(ta)
      [] k = "Enter"     -> InsertNewline(ta)

InputModified(ta, k) ==
    CASE k \in Chars     -> TRUE
      [] k = "Tab"       -> TRUE
      [] k = "Backspace" -> DeleteCharMod(ta)
      [] k = "Delete"    -> DeleteNextCharMod(ta)
      [] k = "Enter"     -> TRUE


----------------------------------------------------------------------------
(* StatefulArea *)

Area == TA(lines, cursor[1], cursor[2])

\* `self.width - 6` on u16 as a build without overflow checks computes it
Threshold(w) == (w - MARGIN) % U16

\* `self.width - 6` overflows: a build with overflow checks panics there
WidthUnderflows(w) == w < MARGIN

EndsWithSpace(l) == l # <<>> /\ l[Len(l)] = " "

\* The branch of move_last_word_to_new_line taken for line l under width w:
\*   "none"  the line is shorter than width - 6
\*   "blank" the regex \S+ finds nothing in the line
\*   "wrap"  the match starts at 0 of the reversed line (the line ends in a word)
\*   "trim"  the match starts later (the line ends in whitespace)
\* (the history variable reflow also records "unmodified", when the key changed
\* nothing and the reflow was not called, and "panic" / "underflow", when
\* width - 6 overflowed with / without overflow checks)
ReflowBranch(l, w) ==
    IF Len(l) < Threshold(w) THEN "none"
    ELSE IF ~HasNonSpace(l) THEN "blank"
    ELSE IF ~IsSpace(l[Len(l)]) THEN "wrap"
    ELSE "trim"

\* The text area after move_last_word_to_new_line
ReflowArea(ta, w) ==
    LET l     == Line(ta)
        rword == Reverse(LeadingWord(Reverse(l)))
    IN  CASE ReflowBranch(l, w) = "wrap" -> InsertStr(InsertNewline(DeleteWord(ta)), rword)
          [] ReflowBranch(l, w) = "trim" -> DeleteChar(ta)
          [] OTHER -> ta

\* The height after move_last_word_to_new_line
ReflowHeight(ta, h, w) ==
    IF ReflowBranch(Line(ta), w) # "none" /\ h <= MAX_AREA_HEIGHT /\ ~EndsWithSpace(Line(ta))
    THEN (h + 1) % U16
    ELSE h

\* StatefulArea::get_buffer: every line, with a newline pushed after it when it is
\* not empty and differs from the last line; None (ok = FALSE) when the trimmed
\* result is empty
BufferText(ls) ==
    Concat([i \in 1..Len(ls) |->
              IF ls[i] # <<>> /\ ls[i] # ls[Len(ls)] THEN Append(ls[i], NL) ELSE ls[i]])

None == [some |-> FALSE, val |-> <<>>]
Some(v) == [some |-> TRUE, val |-> v]

\* get_buffer testing is_empty() without the trim()
GetBuffer_NoTrim(ls) == IF BufferText(ls) = <<>> THEN None ELSE Some(BufferText(ls))

GetBuffer(ls) == IF ~HasNonSpace(BufferText(ls)) THEN None ELSE Some(BufferText(ls))

\* StatefulArea::clear_buffer: lines().len() rounds of
\* move_cursor(End); delete_line_by_head(); delete_newline()
ClearRound(ta) == DeleteNewline(DeleteLineByHead(MoveEnd(ta)))

RECURSIVE ClearRounds(_, _)
ClearRounds(ta, n) ==
    IF n = 0 THEN ta
    ELSE LET next == ClearRound(ta)
         IN  \* a round that changes nothing leaves nothing to the rounds after it
             IF next = ta THEN ta ELSE ClearRounds(next, n - 1)

ClearBuffer(ta) == ClearRounds(ta, Len(ta.lines))

----------------------------------------------------------------------------
(* Operations of the edit buffer *)

SetArea(ta) ==
    /\ lines'  = ta.lines
    /\ cursor' = <<ta.row, ta.col>>

\* StatefulArea::on_input_update(key)
OnInput(k) ==
    /\ ~panicked
    /\ LET ta1 == InputWithoutShortcuts(Area, k)
       IN  /\ typed'  = Append(typed, k)
           /\ seenW'  = seenW \cup {width}
           /\ steps'  = steps + 1
           /\ lastOp' = <<"on_input", k>>
           /\ IF ~InputModified(Area, k)
              THEN /\ SetArea(ta1)
                   /\ reflow' = "unmodified"
                   /\ UNCHANGED <<height, panicked>>
              ELSE \/ /\ WidthUnderflows(width)
                      /\ SetArea(ta1)
                      /\ panicked' = TRUE
                      /\ reflow' = "panic"
                      /\ UNCHANGED height
                   \/ /\ SetArea(ReflowArea(ta1, width))
                      /\ height' = ReflowHeight(ta1, height, width)
                      /\ reflow' = IF WidthUnderflows(width) THEN "underflow"
                                    ELSE ReflowBranch(Line(ta1), width)
                      /\ UNCHANGED panicked
    /\ ret' = None /\ drained' = <<>>
    /\ UNCHANGED <<width, term, popupVars, timerHist, listVars, dbVars, shown>>

\* StatefulArea::get_text()
GetText ==
    /\ ~panicked
    /\ ret' = GetBuffer(lines)
    /\ drained' = lines
    /\ SetArea(ClearBuffer(Area))
    /\ typed'  = <<>>
    /\ seenW'  = {}
    /\ lastOp' = <<"get_text", "">>
    /\ reflow' = "none"
    /\ UNCHANGED <<height, width, term, panicked, steps, popupVars, timerHist, listVars, dbVars, shown>>

\* A caller moves the cursor through the public field `textarea`
MoveCursor(m) ==
    /\ ~panicked
    /\ SetArea(MoveCursorTo(Area, m))
    /\ lastOp' = <<"move_cursor", m>>
    /\ reflow' = "none"
    /\ ret' = None /\ drained' = <<>>
    /\ UNCHANGED <<height, width, term, panicked, typed, seenW, steps, popupVars,
                   timerHist, listVars, dbVars, shown>>

----------------------------------------------------------------------------
(* Timer and PopupState *)

Users == {"alice", "bob"}

PopupNone == <<"None">>
PopupHelp == <<"Help">>
PopupList == <<"List">>
Banned(u) == <<"Banned", u>>
JoinedLeft(u, j) == <<"JoinedLeft", u, j>>

TimedPopups  == {Banned(u) : u \in Users} \cup {JoinedLeft(u, j) : u \in Users, j \in BOOLEAN}
ToggledPopups == {PopupHelp, PopupList}

\* Timer::has_time_passed
HasTimePassed(c) == ~(c > 0)

\* a reload that makes a cycle of treshold_time + 1 ticks
Reloaded_PlusOne(c, t) == IF c <= 0 THEN t + 1 ELSE c

\* Timer::dec: the counter after the reload at `counter <= 0`, before `counter -= 1`
Reloaded(c, t) == IF c <= 0 THEN t ELSE c

\* Timer::dec
Tick ==
    /\ ~panicked
    /\ IF ~start
       THEN UNCHANGED <<counter, panicked>>
       ELSE IF Reloaded(counter, treshold) >= 1
            THEN /\ counter' = Reloaded(counter, treshold) - 1
                 /\ UNCHANGED panicked
            ELSE \* 0 - 1 on usize: a panic with overflow checks, a wrap without
                 \/ /\ panicked' = TRUE
                    /\ counter' = Reloaded(counter, treshold)
                 \/ /\ counter' = UsizeMax
                    /\ UNCHANGED panicked
    /\ lastOp' = <<"tick", "">>
    /\ ret' = None /\ drained' = <<>>
    /\ IF start /\ ~panicked'
       THEN /\ sinceZero' = IF counter' = 0 THEN 0 ELSE sinceZero + 1
            /\ period' = IF counter' = 0 THEN sinceZero + 1 ELSE period
       ELSE UNCHANGED <<sinceZero, period>>
    /\ fresh' = IF fresh[1] = "armed" /\ fresh[2] <= treshold
                THEN <<"armed", fresh[2] + 1>> ELSE <<"other", 0>>
    /\ UNCHANGED <<lines, cursor, height, width, term, typed, seenW, steps, reflow,
                   popup, start, treshold, quiet, listVars, dbVars, shown>>

\* Timer::unlock
Unlock ==
    /\ ~panicked
    /\ start' = TRUE
    /\ fresh' = IF fresh = <<"new", 0>> THEN <<"armed", 0>> ELSE <<"other", 0>>
    /\ lastOp' = <<"unlock", "">>
    /\ UNCHANGED <<areaVars, typed, seenW, steps, reflow, ret, drained, popup, counter,
                   treshold, pc, quiet, sinceZero, period, listVars, dbVars, shown>>

\* a lock that also rewinds the counter
Lock_ClearsCounter ==
    /\ ~panicked
    /\ start' = FALSE
    /\ counter' = 0
    /\ fresh' = <<"other", 0>>
    /\ lastOp' = <<"lock", "">>
    /\ UNCHANGED <<areaVars, typed, seenW, steps, reflow, ret, drained, popup,
                   treshold, pc, quiet, sinceZero, period, listVars, dbVars, shown>>

\* Timer::lock
Lock ==
    /\ ~panicked
    /\ start' = FALSE
    /\ fresh' = <<"other", 0>>
    /\ lastOp' = <<"lock", "">>
    /\ UNCHANGED <<areaVars, typed, seenW, steps, reflow, ret, drained, popup, counter,
                   treshold, pc, quiet, sinceZero, period, listVars, dbVars, shown>>

\* render resetting the popup in the Banned arm only
RenderPopup_BannedOnly(p, c) ==
    IF p[1] = "Banned" /\ HasTimePassed(c) THEN PopupNone ELSE p

\* render resetting whatever popup is shown once the time has passed
RenderPopup_AnyExpires(p, c) ==
    IF HasTimePassed(c) THEN PopupNone ELSE p

\* The popup after the match on current_popup in Tui::render
RenderPopup(p, c) ==
    IF p[1] \in {"Banned", "JoinedLeft"} /\ HasTimePassed(c) THEN PopupNone ELSE p

\* Tui::render: the layout constraints, on u16
MSG_PERCENT == 90
INPUT_ROWS  == 5

\* a message area that starts from 20 percent
MsgPercent_From20(h) == (20 - h) % U16

\* Constraint::Percentage(90 - app.msg_area.height)
MsgPercent(h) == (MSG_PERCENT - h) % U16

\* Constraint::Length(5 + app.msg_area.height)
InputRows(h) == (INPUT_ROWS + h) % U16

\* 90 - height or 5 + height leaves the range of u16
LayoutWraps(h) == h > MSG_PERCENT \/ INPUT_ROWS + h >= U16

\* Tui::render: what it writes to the application state
Render ==
    /\ ~panicked
    /\ \/ /\ ~LayoutWraps(height)
          /\ width' = term
          /\ popup' = RenderPopup(popup, counter)
          /\ UNCHANGED panicked
       \/ \* a panic with overflow checks
          /\ LayoutWraps(height)
          /\ panicked' = TRUE
          /\ UNCHANGED <<width, popup>>
       \/ \* a wrapped constraint without: the frame is still split in two rows
          /\ LayoutWraps(height)
          /\ width' = term
          /\ popup' = RenderPopup(popup, counter)
          /\ UNCHANGED panicked
    /\ lastOp' = <<"render", IF popup' # popup THEN "expired" ELSE "">>
    /\ ret' = None /\ drained' = <<>>
    /\ UNCHANGED <<lines, cursor, height, term, typed, seenW, steps, reflow,
                   counter, start, treshold, quiet, timerHist, listVars, dbVars>>
    /\ shown' = IF popup \in TimedPopups THEN shown + 1 ELSE shown

----------------------------------------------------------------------------
(* The session loop and its event handlers: input, then timer tick, then   *)
(* render on every iteration.                                              *)

\* An iteration whose input phase brings no event
NoEvent ==
    /\ pc = "input" /\ ~panicked
    /\ pc' = "tick"
    /\ lastOp' = <<"no_event", "">>
    /\ UNCHANGED <<areaVars, typed, seenW, steps, reflow, ret, drained, popup, counter, start,
                   treshold, quiet, timerHist, listVars, dbVars, shown>>

\* A UserBanned / UserJoined / UserLeft event: the notification popup opens and
\* the timer is armed
Notify(p) ==
    /\ pc = "input" /\ ~panicked
    /\ popup' = p
    /\ start' = TRUE
    /\ quiet' = TRUE
    /\ pc' = "tick"
    /\ lastOp' = <<"notify", p[1]>>
    /\ fresh' = <<"other", 0>>
    /\ UNCHANGED <<areaVars, typed, seenW, steps, reflow, ret, drained, counter, treshold,
                   sinceZero, period, listVars, dbVars>>
    /\ shown' = 0

\* The help / user-list command: opens the popup from None, closes it (and
\* disarms the timer) when it is the one shown; over another popup the command
\* is either ignored or takes precedence
Toggle(p) ==
    /\ pc = "input" /\ ~panicked
    /\ \/ /\ popup = PopupNone
          /\ popup' = p
          /\ UNCHANGED start
       \/ /\ popup = p
          /\ popup' = PopupNone
          /\ start' = FALSE
       \/ /\ popup \notin {PopupNone, p}
          /\ popup' \in {popup, p}
          /\ UNCHANGED start
    /\ quiet' = FALSE
    /\ pc' = "tick"
    /\ lastOp' = <<"toggle", p[1]>>
    /\ fresh' = <<"other", 0>>
    /\ UNCHANGED <<areaVars, typed, seenW, steps, reflow, ret, drained, counter, treshold,
                   sinceZero, period, listVars, dbVars, shown>>

LoopTick ==
    /\ pc = "tick"
    /\ Tick
    /\ pc' = "render"

LoopRender ==
    /\ pc = "render"
    /\ Render
    /\ pc' = "input"

----------------------------------------------------------------------------
(* StatefulList: the message list and its selection *)

\* ListState::selected() = None
NoSel == -1

Messages == {"hi", "yo"}

\* next advancing without the clamp at the last index
NextSel_NoClamp(sel, len) ==
    IF len # 0
    THEN IF sel # NoSel THEN sel + 1 ELSE 0
    ELSE sel

\* next selecting index 0 on an empty list
NextSel_NoEmptyGuard(sel, len) ==
    IF sel # NoSel
    THEN IF sel >= len - 1 THEN sel ELSE sel + 1
    ELSE 0

\* StatefulList::next: the selection it leaves
NextSel(sel, len) ==
    IF len # 0
    THEN IF sel # NoSel
         THEN IF sel >= len - 1 THEN sel ELSE sel + 1
         ELSE 0
    ELSE sel

\* StatefulList::previous: the selection it leaves
PrevSel(sel, len) ==
    IF len # 0
    THEN IF sel # NoSel
         THEN IF sel = 0 THEN sel ELSE sel - 1
         ELSE 0
    ELSE sel

\* What a list operation leaves alone
ListFrame ==
    /\ ret' = None /\ drained' = <<>>
    /\ UNCHANGED <<areaVars, typed, seenW, steps, reflow, popupVars, timerHist, dbVars, shown>>

\* The word lastOp keeps of the selection an operation found
SelWord == IF selected = NoSel THEN "unset" ELSE "set"

\* StatefulList::select_last
SelectLast ==
    /\ ~panicked
    /\ selected' = Len(items)
    /\ lastOp' = <<"select_last", SelWord>>
    /\ UNCHANGED <<items, highlighted>>
    /\ ListFrame

\* StatefulList::next
ListNext ==
    /\ ~panicked
    /\ selected' = NextSel(selected, Len(items))
    /\ lastOp' = <<"next", SelWord>>
    /\ UNCHANGED <<items, highlighted>>
    /\ ListFrame

\* StatefulList::previous
ListPrevious ==
    /\ ~panicked
    /\ selected' = PrevSel(selected, Len(items))
    /\ lastOp' = <<"previous", SelWord>>
    /\ UNCHANGED <<items, highlighted>>
    /\ ListFrame

\* A message arrives and is appended to the public field `items`
PushItem(msg) ==
    /\ ~panicked
    /\ items' = Append(items, msg)
    /\ lastOp' = <<"push", SelWord>>
    /\ UNCHANGED <<selected, highlighted>>
    /\ ListFrame

\* The owner of the list switches the public field `is_highlighted`
SetHighlighted(b) ==
    /\ ~panicked
    /\ b # highlighted
    /\ highlighted' = b
    /\ lastOp' = <<"set_highlighted", SelWord>>
    /\ UNCHANGED <<items, selected>>
    /\ ListFrame

----------------------------------------------------------------------------
(* The room store and the commands of run_option. An Option<String> is the *)
(* empty sequence (None) or a sequence of one string (Some).               *)

RoomIds   == {"someroom", "anotheroom"}
Addrs     == {"192.168.0.2:12345"}
Passwords == {"secret", "guess"}

\* The LocalData document of a fresh store (db_init; the tests of app.rs read it
\* from the in-memory store too)
DefaultAddr == "127.0.0.1:12345"
DefaultLocalData == [addr |-> DefaultAddr]

\* The Room document create_room inserts
Room(id, addr, passwd) ==
    [id |-> id, addr |-> addr, passwd |-> passwd, banned_addrs |-> <<>>, is_owner |-> TRUE]

\* A document matches the filter doc! {field: v}
Matches(d, field, v) == field \in DOMAIN d /\ d[field] = v

\* Collection::find_one(doc! {field: v}): the index of the first match, 0 for None
FindOne(coll, field, v) ==
    IF \E i \in 1..Len(coll) : Matches(coll[i], field, v)
    THEN CHOOSE i \in 1..Len(coll) :
            /\ Matches(coll[i], field, v)
            /\ \A j \in 1..(i - 1) : ~Matches(coll[j], field, v)
    ELSE 0

\* Collection::delete_one(doc! {field: v})
DeleteOne(coll, field, v) ==
    LET i == FindOne(coll, field, v)
    IN  IF i = 0 THEN coll
        ELSE [j \in 1..(Len(coll) - 1) |-> IF j < i THEN coll[j] ELSE coll[j + 1]]

\* a create_room that takes the address of the local data whatever was supplied
RoomAddr_AlwaysLocal(ip, ld) == ld[1].addr

\* create_room: the address of the new room
RoomAddr(ip, ld) == IF ip # <<>> THEN ip[1] ELSE ld[1].addr

\* What a command leaves alone
DbFrame ==
    /\ ret' = None /\ drained' = <<>>
    /\ UNCHANGED <<areaVars, typed, seenW, steps, reflow, popupVars, timerHist, listVars, shown>>

\* run_option(CommandRequest::Create {room_id, ip, password})
CreateRoom(room_id, ip, password) ==
    /\ ~panicked
    /\ lastOp' = <<"create", room_id, ip, password>>
    /\ IF FindOne(rooms, "id", room_id) # 0
       THEN /\ dbRet' = "AlreadyExistingId"
            /\ UNCHANGED rooms
       ELSE IF ip = <<>> /\ localData = <<>>
       THEN /\ dbRet' = "DataNotFound"
            /\ UNCHANGED rooms
       ELSE \E input \in Passwords :
            /\ rooms' = Append(rooms, Room(room_id, RoomAddr(ip, localData),
                                           IF password THEN <<input>> ELSE <<>>))
            /\ dbRet' = "Ok"
    /\ UNCHANGED localData
    /\ DbFrame

\* run_option(CommandRequest::Delete {room_id})
DeleteRoom(room_id) ==
    /\ ~panicked
    /\ lastOp' = <<"delete", room_id>>
    /\ LET i == FindOne(rooms, "room_id", room_id)
       IN  IF i = 0
           THEN /\ dbRet' = "NotExistingId"
                /\ UNCHANGED rooms
           ELSE \E input \in Passwords :
                IF rooms[i].is_owner /\ rooms[i].passwd # <<>> /\ input # rooms[i].passwd[1]
                THEN /\ dbRet' = "InvalidPassword"
                     /\ UNCHANGED rooms
                ELSE /\ rooms' = DeleteOne(rooms, "room_id", room_id)
                     /\ dbRet' = "Ok"
    /\ UNCHANGED localData
    /\ DbFrame

\* run_option(CommandRequest::Invalid)
InvalidCommand ==
    /\ ~panicked
    /\ lastOp' = <<"invalid", "">>
    /\ dbRet' = "InvalidCommand"
    /\ UNCHANGED <<rooms, localData>>
    /\ DbFrame

----------------------------------------------------------------------------
(* Initial states *)

\* StatefulArea::new, Timer::new(t), current_popup = None, StatefulList::default,
\* db_init, in a terminal of tw columns
InitWith(tw, t) ==
    /\ lines = <<<<>>>>
    /\ cursor = <<0, 0>>
    /\ height = 0
    /\ width = 0
    /\ term = tw
    /\ panicked = FALSE
    /\ typed = <<>>
    /\ seenW = {}
    /\ steps = 0
    /\ lastOp = <<"new", "">>
    /\ reflow = "none"
    /\ ret = None
    /\ drained = <<>>
    /\ popup = PopupNone
    /\ counter = 0
    /\ start = FALSE
    /\ treshold = t
    /\ pc = "input"
    /\ quiet = FALSE
    /\ sinceZero = 0
    /\ period = 0
    /\ fresh = <<"new", 0>>
    /\ items = <<>>
    /\ selected = NoSel
    /\ highlighted = FALSE
    /\ rooms = <<>>
    /\ localData = <<DefaultLocalData>>
    /\ dbRet = "none"
    /\ shown = 0

\* Terminal widths tried
EditWidths == {3, 7, 8, 9, 10}

(* Editing: any sequence of on_input_update, get_text and render calls. *)
InitEdit == \E tw \in EditWidths : InitWith(tw, 1)

NextEdit ==
    \/ \E k \in Keys : steps < MaxSteps /\ OnInput(k)
    \/ GetText
    \/ Render /\ UNCHANGED pc

Spec == InitEdit /\ [][NextEdit]_vars


(* The growth of the height: the same operations in a terminal of 7        *)
(* columns, with the one key "a", over a longer session.                   *)
InitHeight == InitWith(MARGIN + 1, 1)

NextHeight ==
    \/ steps < MaxHeightSteps /\ OnInput("a")
    \/ GetText
    \/ Render /\ UNCHANGED pc

SpecHeight == InitHeight /\ [][NextHeight]_vars

(* Editing with a caller that also moves the cursor of the text area.      *)
CursorKeys == {"a", " ", "Enter", "Backspace"}

NextCursor ==
    \/ \E k \in CursorKeys : steps < MaxSteps /\ OnInput(k)
    \/ GetText
    \/ Render /\ UNCHANGED pc
    \/ \E m \in Moves : MoveCursor(m)

InitCursor == InitWith(10, 1)

SpecCursor == InitCursor /\ [][NextCursor]_vars


(* The popups: the session loop with notifications and the help and       *)
(* user-list commands as its events, for every threshold 1..MaxTreshold.   *)
(* The loop never waits for ever: an iteration without event is a step.    *)
InitPopup == \E t \in 1..MaxTreshold : InitWith(10, t)

NextPopup ==
    \/ NoEvent
    \/ \E p \in TimedPopups : Notify(p)
    \/ \E p \in ToggledPopups : Toggle(p)
    \/ LoopTick
    \/ LoopRender

SpecPopup == InitPopup /\ [][NextPopup]_vars /\ WF_vars(NextPopup)

\* The room store on its own: db_init, then commands in any order
NextDb ==
    \/ \E room_id \in RoomIds, ip \in {<<>>} \cup {<<a>> : a \in Addrs}, password \in BOOLEAN :
          CreateRoom(room_id, ip, password)
    \/ \E room_id \in RoomIds : DeleteRoom(room_id)
    \/ InvalidCommand

SpecDb == InitCursor /\ [][NextDb]_vars

\* The message list on its own: StatefulList::default, then appends and
\* selection moves in any order
MaxItems == 3

NextList ==
    \/ SelectLast
    \/ ListNext
    \/ ListPrevious
    \/ \E msg \in Messages : Len(items) < MaxItems /\ PushItem(msg)
    \/ \E b \in BOOLEAN : SetHighlighted(b)

SpecList == InitCursor /\ [][NextList]_vars

\* The timer on its own: Timer::new(t), then unlock, lock and dec in any order
MaxTicks == 5

InitTimer == \E t \in 0..MaxTreshold : InitWith(10, t)

TimerTick ==
    /\ sinceZero < MaxTicks
    /\ Tick
    /\ UNCHANGED pc

NextTimer ==
    \/ Unlock
    \/ Lock
    \/ TimerTick

SpecTimer == InitTimer /\ [][NextTimer]_vars

----------------------------------------------------------------------------
(* Vocabulary of the properties *)

NonSpaceChars == Letters \cup Puncts

AllIn(s, S) == \A i \in 1..Len(s) : s[i] \in S

\* the keys since the last drain were all processed under the one width w
FixedWidth(w) == seenW = {w}

\* the length of the longest run of non-whitespace characters in s
RECURSIVE LongestWord(_, _, _)
LongestWord(s, run, best) ==
    IF s = <<>> THEN (IF run > best THEN run ELSE best)
    ELSE IF IsSpace(Head(s)) THEN LongestWord(Tail(s), 0, IF run > best THEN run ELSE best)
    ELSE LongestWord(Tail(s), run + 1, best)

\* the typed keys cut into lines at every "Enter"
RECURSIVE SplitAtEnter(_, _)
SplitAtEnter(ks, cur) ==
    IF ks = <<>> THEN <<cur>>
    ELSE IF Head(ks) = "Enter" THEN <<cur>> \o SplitAtEnter(Tail(ks), <<>>)
    ELSE SplitAtEnter(Tail(ks), Append(cur, Head(ks)))

RECURSIVE JoinLines(_)
JoinLines(ls) ==
    IF ls = <<>> THEN <<>>
    ELSE IF Len(ls) = 1 THEN ls[1]
    ELSE ls[1] \o <<NL>> \o JoinLines(Tail(ls))

DropTrailingEmpty(ls) ==
    IF Len(ls) > 1 /\ ls[Len(ls)] = <<>> THEN SubSeq(ls, 1, Len(ls) - 1) ELSE ls

\* the number of occurrences of character ch in the lines ls
Count(ls, ch) == Len(SelectSeq(Concat(ls), LAMBDA x : x = ch))

\* the longest suffix of l without whitespace
TrailingWord(l) == Reverse(LeadingWord(Reverse(l)))

----------------------------------------------------------------------------
(* Properties of the edit buffer *)

\* C1: a single token of non-whitespace characters, typed key by key into an
\* empty buffer under one width w >= 7, never makes a second line and never
\* leaves a line longer than w - 6.
C1_TokenStaysOnOneBoundedLine ==
    \A w \in EditWidths :
        ( /\ w >= MARGIN + 1
          /\ FixedWidth(w)
          /\ typed # <<>>
          /\ AllIn(typed, NonSpaceChars) )
        => /\ Len(lines) = 1
           /\ \A i \in 1..Len(lines) : Len(lines[i]) <= w - MARGIN

\* C2: when on_input_update appends a non-whitespace character that brings the
\* active line to width - 6 characters or more, and the line has whitespace
\* before its trailing word, the step removes exactly that word from the line,
\* opens a new line right after it holding the word, leaves the cursor after the
\* word, keeps every other line and keeps the count of every character.
C2_WrapMovesExactlyTheWord ==
    [][ \A k \in NonSpaceChars :
          LET l1   == Line(InsertChar(Area, k))
              word == TrailingWord(l1)
              rest == SubSeq(l1, 1, Len(l1) - Len(word))
          IN  ( /\ lastOp' = <<"on_input", k>>
                /\ typed' = Append(typed, k)
                /\ ~panicked'
                /\ width >= MARGIN
                /\ Len(l1) >= width - MARGIN
                /\ rest # <<>> )
              => /\ lines' = SubSeq(lines, 1, cursor[1])
                               \o <<rest, word>>
                               \o SubSeq(lines, cursor[1] + 2, Len(lines))
                 /\ cursor' = <<cursor[1] + 1, Len(word)>>
                 /\ \A ch \in Chars :
                        Count(lines', ch) = Count(lines, ch) + (IF ch = k THEN 1 ELSE 0)
      ]_vars

\* C3: text typed key by key at the end of the buffer under one width w >= 7,
\* every word of it shorter than w - 6: every line has at most w - 6 characters
\* and the lines, concatenated in order, are the typed characters.
C3_WrapKeepsTextAndBound ==
    \A w \in EditWidths :
        ( /\ w >= MARGIN + 1
          /\ FixedWidth(w)
          /\ AllIn(typed, Chars)
          /\ LongestWord(typed, 0, 0) < w - MARGIN )
        => /\ \A i \in 1..Len(lines) : Len(lines[i]) <= w - MARGIN
           /\ Concat(lines) = typed

\* C4: the reported height never exceeds MAX_AREA_HEIGHT.
C4_HeightAtMostMax == height <= MAX_AREA_HEIGHT

\* C5: under a width below the margin an edit that modifies the buffer neither
\* panics nor lets width - 6 underflow.
C5_NarrowWidthIsSafe ==
    /\ ~panicked
    /\ (lastOp[1] = "on_input" /\ width < MARGIN) => reflow \notin {"panic", "underflow"}

\* C6: characters and newlines typed under one width w >= 7 with every line
\* shorter than w - 6: get_text returns the typed lines joined by one newline
\* each, without a trailing empty line, and the height has not changed.
C6_GetTextReturnsTypedLines ==
    [][ \A w \in EditWidths :
          ( /\ lastOp'[1] = "get_text"
            /\ w >= MARGIN + 1
            /\ FixedWidth(w)
            /\ AllIn(typed, Chars \cup {"Enter"})
            /\ \A i \in 1..Len(SplitAtEnter(typed, <<>>)) :
                   Len(SplitAtEnter(typed, <<>>)[i]) < w - MARGIN
            /\ HasNonSpace(Concat(SplitAtEnter(typed, <<>>))) )
          => /\ lines = SplitAtEnter(typed, <<>>)
             /\ ret' = Some(JoinLines(DropTrailingEmpty(SplitAtEnter(typed, <<>>))))
      ]_vars

\* C7: after get_text the buffer is one empty line with the cursor at <<0, 0>>,
\* wherever the cursor was, and a second get_text would return no content.
C7_GetTextDrainsBuffer ==
    lastOp[1] = "get_text" =>
        /\ lines = <<<<>>>>
        /\ cursor = <<0, 0>>
        /\ GetBuffer(lines) = None

\* C8: get_text returns None exactly when every line it read is empty or
\* whitespace only.
C8_NoneIffBlank ==
    lastOp[1] = "get_text" =>
        (ret = None <=> \A i \in 1..Len(drained) : ~HasNonSpace(drained[i]))

\* a drain of a buffer holding only whitespace, some of it, returned None, and
\* a drain of a buffer with a word in it returned a value
C8_Witness ==
    /\ lastOp[1] = "get_text"
    /\ ret = None
    /\ \E i \in 1..Len(drained) : drained[i] # <<>>
    /\ Len(drained) > 1


----------------------------------------------------------------------------
(* Properties of the popups *)

\* C9: a notification popup (Banned or JoinedLeft) entered with the timer armed
\* is eventually reset to None when no further event arrives, and a notification
\* popup is reset to None only by a render that finds has_time_passed() true.
C9_NotificationExpires ==
    /\ \A p \in TimedPopups :
           (popup = p /\ quiet /\ start) ~> (popup = PopupNone \/ ~quiet)
    /\ [][ (popup \in TimedPopups /\ popup' = PopupNone)
             => (lastOp'[1] = "render" /\ HasTimePassed(counter)) ]_vars

\* a render has just reset an undisturbed notification, under a threshold of
\* more than one tick
C9_Witness ==
    /\ lastOp = <<"render", "expired">>
    /\ popup = PopupNone
    /\ quiet
    /\ start
    /\ treshold >= 2

----------------------------------------------------------------------------
(* Rendering *)

\* C11 as stated: a render call leaves the whole session state as it was: the
\* input area's lines, cursor, height and width, the list and its selection,
\* the popup and the timer
C11_RenderLeavesStateUnchanged ==
    [][lastOp'[1] = "render" =>
         UNCHANGED <<lines, cursor, height, width, items, selected, popup,
                     counter, start, treshold>>]_vars

----------------------------------------------------------------------------
(* Timer *)

\* C12 as stated: after new(T) with T >= 1 and unlock, ticks numbered 0..T:
\* has_time_passed is false after each of the ticks 0..T-1 and true after tick T
C12_FirstExpiryAtTickT ==
    (treshold >= 1 /\ fresh[1] = "armed" /\ fresh[2] \in 1..(treshold + 1))
        => (HasTimePassed(counter) <=> fresh[2] = treshold + 1)

\* C12 amended: after new(T) with T >= 1 and unlock, ticks numbered 0..T-1:
\* has_time_passed is false after each of the ticks 0..T-2 and true after tick
\* T-1, that is after T ticks
C12_FirstExpiryAfterTTicks ==
    (treshold >= 1 /\ fresh[1] = "armed" /\ fresh[2] \in 1..treshold)
        => (HasTimePassed(counter) <=> fresh[2] = treshold)

C12_Witness ==
    /\ treshold >= 2
    /\ fresh = <<"armed", treshold>>
    /\ HasTimePassed(counter)

\* C13: with T >= 2 and the timer running, from a state whose counter is 0 the
\* time has not passed after each of the next T-1 ticks and has passed after
\* exactly T ticks, again and again
C13_ExpiryEveryTTicks ==
    treshold >= 2 =>
        /\ sinceZero \in 0..(treshold - 1)
        /\ sinceZero > 0 => ~HasTimePassed(counter)
        /\ sinceZero = 0 => HasTimePassed(counter)
        /\ period \in {0, treshold}

C13_Witness ==
    /\ treshold >= 2
    /\ period = treshold
    /\ sinceZero = treshold - 1
    /\ start

\* C14: a tick of a timer that is not running leaves the counter as it was;
\* lock and unlock change the running flag only; has_time_passed holds exactly
\* when the counter is 0, whatever the flag, so that a fresh timer reports true
C14_LockedTimerKeepsCounter ==
    /\ [](HasTimePassed(counter) <=> counter = 0)
    /\ [](fresh = <<"new", 0>> => HasTimePassed(counter))
    /\ [][/\ (lastOp'[1] = "tick" /\ ~start) => counter' = counter
          /\ lastOp'[1] \in {"lock", "unlock"} =>
                /\ UNCHANGED <<counter, treshold, popup>>
                /\ start' = (lastOp'[1] = "unlock")]_vars

C14_Witness ==
    /\ ~start
    /\ lastOp[1] = "tick"
    /\ counter > 0

----------------------------------------------------------------------------
(* List selection *)

\* C15: on a list of N >= 1 items next and previous never leave the selection
\* outside 0..N-1, whatever state they start from, the one select_last leaves
\* included
C15_NextPreviousStayInRange ==
    (Len(items) >= 1 /\ lastOp[1] \in {"next", "previous"})
        => selected \in 0..(Len(items) - 1)

\* C16: on an empty list next and previous leave the selection exactly as it
\* was and do not panic; on a non-empty list with no selection next selects
\* index 0
C16_EmptyListKeepsSelection ==
    [][/\ (lastOp'[1] \in {"next", "previous"} /\ items = <<>>) =>
             (selected' = selected /\ ~panicked')
       /\ (lastOp'[1] = "next" /\ items # <<>> /\ selected = NoSel) =>
             selected' = 0]_vars

C16_Witness ==
    /\ lastOp = <<"next", "set">>
    /\ items = <<>>
    /\ selected = 0

\* C20: select_last sets the selection to len; whatever the order of appends,
\* next, previous and select_last, the selection is unset or an index in
\* 0..len; none of these operations changes the highlight flag
C20_SelectionUnsetOrUpToLen ==
    /\ [](selected = NoSel \/ selected \in 0..Len(items))
    /\ [](lastOp[1] = "select_last" => selected = Len(items))
    /\ [][lastOp'[1] \in {"push", "next", "previous", "select_last"} =>
            highlighted' = highlighted]_vars

C20_Witness ==
    /\ lastOp = <<"next", "set">>
    /\ Len(items) >= 2
    /\ selected = Len(items)
    /\ highlighted

----------------------------------------------------------------------------
(* Room store *)

\* A room with this id is stored
HasRoom(rs, id) == \E i \in 1..Len(rs) : rs[i].id = id

\* The stored rooms but those with this id
WithoutRoom(rs, id) == SelectSeq(rs, LAMBDA d : d.id # id)

\* C17: once a Create has stored a room with id R (without a password), a
\* Delete for R returns Ok, no room with id R is stored afterwards and the
\* other rooms are as they were
C17_DeleteRemovesCreatedRoom ==
    [][\A R \in RoomIds :
         (/\ lastOp' = <<"delete", R>>
          /\ \E i \in 1..Len(rooms) : rooms[i].id = R /\ rooms[i].passwd = <<>>)
         => /\ dbRet' = "Ok"
            /\ ~HasRoom(rooms', R)
            /\ rooms' = WithoutRoom(rooms, R)]_vars

----------------------------------------------------------------------------
(* Edits that shorten the line *)

\* C19: a backspace or delete given to on_input never increases the number of
\* lines of the buffer nor the height, whatever the state of the buffer, a
\* line of width - 6 characters or more included
C19_DeletionNeverGrowsBuffer ==
    [][(lastOp'[1] = "on_input" /\ lastOp'[2] \in {"Backspace", "Delete"})
          => (Len(lines') <= Len(lines) /\ height' <= height)]_vars

----------------------------------------------------------------------------
(* Layout arithmetic *)

\* C21: in every reachable state 90 - height does not underflow and 5 + height
\* does not overflow on u16, so that the message area gets 90 - height percent
\* and the input area 5 + height rows, and the share of the message area never
\* increases as the height grows
C21_LayoutArithmeticInRange ==
    /\ height <= 90
    /\ ~LayoutWraps(height)
    /\ MsgPercent(height) <= 90
    /\ InputRows(height) >= 5
    /\ \A h \in 0..height : MsgPercent(height) <= MsgPercent(h)
    /\ lastOp[1] = "render" => ~panicked

C21_Witness ==
    /\ lastOp[1] = "render"
    /\ height > MAX_AREA_HEIGHT
    /\ MsgPercent(height) < 70

----------------------------------------------------------------------------
(* Range of the timer counter *)

\* C22: for every threshold T >= 0 and every order of unlock, lock and tick,
\* tick never takes the unsigned counter below zero (no panic, no wrap) and the
\* counter stays in 0..T, threshold 0 included
C22_CounterStaysInRange ==
    /\ ~panicked
    /\ counter \in 0..treshold

----------------------------------------------------------------------------
(* How long a notification is shown *)

\* C23: a Banned or JoinedLeft popup entered with the timer (threshold T >= 1)
\* unlocked at that moment stays through the next T - 1 iterations of the loop
\* and is reset to None in the T-th, whatever the counter and the running flag
\* of the timer were when it was entered; with T >= 2 it is never reset in the
\* first render after it was entered
C23_NotificationLastsTIterations ==
    /\ [](popup \in TimedPopups => shown < treshold)
    /\ [][(popup \in TimedPopups /\ popup' = PopupNone /\ lastOp'[1] = "render")
            => shown' = treshold]_vars

====
